---- MODULE Spec2Model ----
(***************************************************************************)
(* A model of the AnyRouter reverse proxy (src/main.py).                   *)
(*                                                                         *)
(* Four specifications share this module:                                  *)
(*   SpecT      transform_body as a pure function of the parsed body       *)
(*   Spec       the process-wide state (config globals, key_cycle), the    *)
(*              /reload handler and concurrent proxy requests              *)
(*   SpecRelay  the relay of one request (streaming generator or buffered  *)
(*              round trip) against a nondeterministic upstream            *)
(*   SpecProxy  one request from its headers and body to the end of its    *)
(*              relay: the credential, parsing, transform_body,            *)
(*              serialisation and the choice of the path                   *)
(*                                                                         *)
(* A text is a sequence of fragments; its value is their concatenation.    *)
(* Fragments are single characters, except the two bracketed literals of   *)
(* the injection wrapper, which no input text contains, and the words of   *)
(* a JSON text (a key, true, a number), which are one fragment each.       *)
(***************************************************************************)
EXTENDS Integers, Sequences, FiniteSets, TLC

VARIABLES
    \* SpecT
    body,       \* the parsed inbound body handed to transform_body
    result,     \* what transform_body did with it
    tpc         \* "parsed" before the call, "done" after it

VARIABLES
    \* Spec: the module globals of main.py
    config, DEBUG, ANYROUTER_URL, FIXED_UA, API_KEYS, key_cycle, logger_level,
    \* Spec: the /reload calls made so far and the last JSONResponse
    reloads, reload_response,
    \* Spec: the proxy requests, each at an await of its coroutine
    rq,
    \* Spec: history of the rotator: the get_next_key calls answered by the
    \* key_cycle object that is bound now, oldest first
    calls

VARIABLES
    \* SpecRelay: lines 177-196 for one request
    is_stream,      \* line 177
    pc,             \* the await the coroutine (or the generator) stands at
    up_status,      \* resp.status_code, 0 before the upstream answered
    up_chunks,      \* the chunks the upstream sends, in order
    nread,          \* how many of them aiter_bytes() has handed over
    err,            \* the error branch's accumulator
    held,           \* the chunk read and not yet yielded, <<>> if none
    sent,           \* the chunks the caller was sent, in order
    caller_status,  \* the status line the caller was sent, 0 before it
    attempts        \* upstream requests issued

VARIABLES
    \* SpecProxy: lines 149-177 for one request
    method,         \* request.method
    inbound,        \* the request body as it arrived
    body_bytes,     \* the local of that name: what goes upstream
    authorization,  \* the request's Authorization header
    headers         \* the local of that name: the headers that go upstream

varsT == <<body, result, tpc>>
varsR == <<is_stream, pc, up_status, up_chunks, nread, err, held, sent,
           caller_status, attempts>>
varsS == <<config, DEBUG, ANYROUTER_URL, FIXED_UA, API_KEYS, key_cycle, logger_level,
           reloads, reload_response, rq, calls>>
varsP == <<method, inbound, body_bytes, authorization, headers>>
vars == <<varsT, varsS, varsR, varsP>>

----------------------------------------------------------------------------
\* Bounds of the model.
MaxMsgs == 3
NumRequests == 3
MaxReloads == 2
MaxChunks == 2

----------------------------------------------------------------------------
\* Texts

WS == {" ", "\n"}

RECURSIVE lstrip(_)
lstrip(t) == IF t /= <<>> /\ Head(t) \in WS THEN lstrip(Tail(t)) ELSE t

RECURSIVE rstrip(_)
rstrip(t) ==
    IF t /= <<>> /\ t[Len(t)] \in WS THEN rstrip(SubSeq(t, 1, Len(t) - 1)) ELSE t

\* str.strip()
strip(t) == rstrip(lstrip(t))

StartsWith(t, p) == Len(t) >= Len(p) /\ SubSeq(t, 1, Len(p)) = p

----------------------------------------------------------------------------
\* Values of a body

\* a key of a dict, or a header of a request: there with a value, or missing
Missing == <<>>
Some(v) == <<v>>

\* dict.get(key, default)
Get(entry, default) == IF entry = Missing THEN default ELSE entry[1]

Absent == "<absent>"                 \* a block without a cache_control key
EPHEMERAL == "ephemeral"             \* {"type": "ephemeral"}
CUSTOM == "caller-annotation"        \* a cache_control the caller sent

Block(t, cc) == [type |-> "text", text |-> t, cache_control |-> cc]

\* content is a str or a list of blocks
StrC(t) == [kind |-> "str", text |-> t, blocks |-> <<>>]
ListC(bs) == [kind |-> "list", text |-> <<>>, blocks |-> bs]

Msg(r, c) == [role |-> r, content |-> c]

\* system is absent, a str or a list of items with a text
NoSystem == [kind |-> "none", text |-> <<>>, items |-> <<>>]
StrSystem(t) == [kind |-> "str", text |-> t, items |-> <<>>]
ListSystem(its) == [kind |-> "list", text |-> <<>>, items |-> its]

FIXED_SYSTEM ==
    << Block(<<"You are Claude Code, Anthropic's official CLI for Claude.">>, EPHEMERAL),
       Block(<<".">>, EPHEMERAL) >>

DefaultMaxTokens == 32000
DefaultTemperature == 1

----------------------------------------------------------------------------
\* get_user_system_text

RECURSIVE SystemParts(_)
SystemParts(items) ==
    IF items = <<>> THEN <<>>
    ELSE IF strip(Head(items)) /= <<>>
         THEN <<strip(Head(items))>> \o SystemParts(Tail(items))
         ELSE SystemParts(Tail(items))

\* "\n\n".join(parts)
RECURSIVE JoinBlankLine(_)
JoinBlankLine(parts) ==
    IF parts = <<>> THEN <<>>
    ELSE IF Len(parts) = 1 THEN parts[1]
    ELSE parts[1] \o <<"\n", "\n">> \o JoinBlankLine(Tail(parts))

get_user_system_text(original_system) ==
    IF original_system.kind = "str" /\ strip(original_system.text) /= <<>>
    THEN strip(original_system.text)
    ELSE IF original_system.kind = "list"
         THEN JoinBlankLine(SystemParts(original_system.items))
         ELSE <<>>

----------------------------------------------------------------------------
\* transform_body, step 1: injection into the first user message

Prefix(user_system) ==
    <<"[System Instructions]", "\n">> \o user_system
        \o <<"\n", "[/System Instructions]", "\n", "\n">>

\* index of the message the for loop breaks on, 0 when it runs to the end
FirstUser(msgs) ==
    IF \E i \in 1..Len(msgs) : msgs[i].role = "user"
    THEN CHOOSE i \in 1..Len(msgs) :
            /\ msgs[i].role = "user"
            /\ \A j \in 1..(i - 1) : msgs[j].role /= "user"
    ELSE 0

InjectContent(content, user_system) ==
    IF content.kind = "str"
    THEN StrC(Prefix(user_system) \o content.text)
    ELSE IF content.blocks /= <<>>
         THEN ListC([content.blocks EXCEPT ![1].text = Prefix(user_system) \o @])
         ELSE content

Inject(msgs, user_system) ==
    IF user_system = <<>> \/ FirstUser(msgs) = 0
    THEN msgs
    ELSE [msgs EXCEPT ![FirstUser(msgs)].content = InjectContent(@, user_system)]

----------------------------------------------------------------------------
\* transform_body, step 2: drop empty assistant messages, merge same-role runs

IsEmptyAssistant(msg) ==
    /\ msg.role = "assistant"
    /\ IF msg.content.kind = "str"
       THEN strip(msg.content.text) = <<>>
       ELSE ~ \E i \in 1..Len(msg.content.blocks) :
                  strip(msg.content.blocks[i].text) /= <<>>

\* content if it is a str, else content[0].get("text", ""): IndexError on []
FirstTextRaises(content) == content.kind = "list" /\ content.blocks = <<>>

FirstText(content) ==
    IF content.kind = "str" THEN content.text ELSE content.blocks[1].text

MergedContent(pt, ct) == ListC(<<Block(pt \o <<"\n">> \o ct, EPHEMERAL)>>)

\* CleanStep with the merge taken for str contents only
CleanStepMergeStrOnly(acc, msg) ==
    IF acc.raised THEN acc
    ELSE IF IsEmptyAssistant(msg) THEN acc
    ELSE LET cleaned == acc.cleaned
             n == Len(cleaned)
         IN  IF /\ n > 0 /\ cleaned[n].role = msg.role
                /\ cleaned[n].content.kind = "str" /\ msg.content.kind = "str"
             THEN [raised |-> FALSE,
                   cleaned |-> [cleaned EXCEPT ![n].content =
                       MergedContent(FirstText(@), FirstText(msg.content))]]
             ELSE [raised |-> FALSE, cleaned |-> Append(cleaned, msg)]

\* one iteration of the loop over body["messages"]
CleanStep(acc, msg) ==
    IF acc.raised THEN acc
    ELSE IF IsEmptyAssistant(msg) THEN acc
    ELSE LET cleaned == acc.cleaned
             n == Len(cleaned)
         IN  IF n > 0 /\ cleaned[n].role = msg.role
             THEN IF FirstTextRaises(cleaned[n].content) \/ FirstTextRaises(msg.content)
                  THEN [raised |-> TRUE, cleaned |-> cleaned]
                  ELSE [raised |-> FALSE,
                        cleaned |-> [cleaned EXCEPT ![n].content =
                            MergedContent(FirstText(@), FirstText(msg.content))]]
             ELSE [raised |-> FALSE, cleaned |-> Append(cleaned, msg)]

RECURSIVE CleanFrom(_, _, _)
CleanFrom(msgs, i, acc) ==
    IF i > Len(msgs) THEN acc ELSE CleanFrom(msgs, i + 1, CleanStep(acc, msgs[i]))

Clean(msgs) == CleanFrom(msgs, 1, [raised |-> FALSE, cleaned |-> <<>>])

----------------------------------------------------------------------------
\* transform_body, step 3: cache_control on every block

AnnotateBlock(block) ==
    IF block.cache_control = Absent
    THEN [block EXCEPT !.cache_control = EPHEMERAL]
    ELSE block

\* AnnotateContent with the annotation given to the first block only
AnnotateContentFirstOnly(c) ==
    IF c.kind = "str"
    THEN ListC(<<Block(c.text, EPHEMERAL)>>)
    ELSE ListC([i \in 1..Len(c.blocks) |->
                  IF i = 1 THEN AnnotateBlock(c.blocks[i]) ELSE c.blocks[i]])

AnnotateContent(c) ==
    IF c.kind = "str"
    THEN ListC(<<Block(c.text, EPHEMERAL)>>)
    ELSE ListC([i \in 1..Len(c.blocks) |-> AnnotateBlock(c.blocks[i])])

Annotate(msgs) ==
    [i \in 1..Len(msgs) |-> [msgs[i] EXCEPT !.content = AnnotateContent(@)]]

----------------------------------------------------------------------------
\* transform_body

\* body.setdefault(key, default) taken as body[key] = default
SetDefaultOverwrite(entry, default) == Some(default)

\* body.setdefault(key, default): the entry of the key afterwards
SetDefault(entry, default) == IF entry = Missing THEN Some(default) ELSE entry

\* the dict is changed in place: keys the function does not name stay
transform_body(b) ==
    LET user_system == get_user_system_text(b.system)
        injected == Inject(b.messages, user_system)
        cl == Clean(injected)
    IN  IF cl.raised
        THEN [raised |-> TRUE, body |-> b]
        ELSE [raised |-> FALSE,
              body |-> [b EXCEPT
                          !.system = FIXED_SYSTEM,
                          !.messages = Annotate(cl.cleaned),
                          !.max_tokens = SetDefault(@, DefaultMaxTokens),
                          !.temperature = SetDefault(@, DefaultTemperature),
                          !.stream = SetDefault(@, TRUE)]]

----------------------------------------------------------------------------
\* SpecT: the inbound bodies and the call

Roles == {"user", "assistant"}

Contents ==
    { StrC(<<" ">>), StrC(<<"a">>), StrC(<<"b">>),
      ListC(<<>>),
      ListC(<<Block(<<"a">>, Absent)>>),
      ListC(<<Block(<<>>, Absent)>>),
      ListC(<<Block(<<"a">>, Absent), Block(<<"b">>, CUSTOM)>>),
      ListC(<<Block(<<>>, CUSTOM), Block(<<"b">>, Absent)>>) }

\* a role that is neither of the two the code names
OtherRoleContents == { StrC(<<"a">>), ListC(<<>>) }

Turns ==
    { Msg(r, c) : r \in Roles, c \in Contents }
        \cup { Msg("tool", c) : c \in OtherRoleContents }

Systems ==
    { NoSystem,
      StrSystem(<<" ">>),
      StrSystem(<<" ", "s">>),
      ListSystem(<< <<"s", " ">>, <<>>, <<"t">> >>) }

\* json.loads(body_bytes) of a body with these system and messages
InboundBody(system, messages) ==
    [system |-> system, messages |-> messages, metadata |-> Missing,
     max_tokens |-> Missing, temperature |-> Missing, stream |-> Missing]

NoResult == [raised |-> FALSE, body |-> Absent]

InitT ==
    /\ \E n \in 0..MaxMsgs :
           \E messages \in [1..n -> Turns], system \in Systems :
               body = InboundBody(system, messages)
    /\ result = NoResult
    /\ tpc = "parsed"
    \* the server is not part of this specification
    /\ config = <<>> /\ DEBUG = FALSE /\ ANYROUTER_URL = "" /\ FIXED_UA = ""
    /\ API_KEYS = <<>> /\ key_cycle = <<>> /\ logger_level = "INFO"
    /\ reloads = 0 /\ reload_response = <<>> /\ rq = <<>>
    /\ calls = <<>>
    \* nor is the relay
    /\ is_stream = FALSE /\ pc = "idle" /\ up_status = 0 /\ up_chunks = <<>>
    /\ nread = 0 /\ err = <<>> /\ held = <<>> /\ sent = <<>>
    /\ caller_status = 0 /\ attempts = 0
    /\ method = "" /\ inbound = <<>> /\ body_bytes = <<>>
    /\ authorization = <<>> /\ headers = <<>>

Transform ==
    /\ tpc = "parsed"
    /\ result' = transform_body(body)
    /\ tpc' = "done"
    /\ UNCHANGED body
    /\ UNCHANGED <<varsS, varsR, varsP>>

NextT == Transform

----------------------------------------------------------------------------
\* JSON values of config.json

JList(items) == [type |-> "list", items |-> items]
JNumber == [type |-> "int", items |-> <<>>]          \* a non-zero number
JNull == [type |-> "null", items |-> <<>>]

JObject(debug, url, ua, keys) ==
    [type |-> "dict", debug |-> debug, anyrouter_url |-> url,
     user_agent |-> ua, api_keys |-> keys]

JTopLevelList ==
    [type |-> "list", debug |-> Missing, anyrouter_url |-> Missing,
     user_agent |-> Missing, api_keys |-> Missing]

\* bool(x) and len(x) of an api_keys value
Truthy(v) == v.type = "int" \/ (v.type = "list" /\ v.items /= <<>>)
Iterable(v) == v.type = "list"
Sized(v) == v.type = "list"

----------------------------------------------------------------------------
\* load_config: what open() and json.load() make of the file

Unreadable == [readable |-> FALSE, json |-> FALSE, value |-> JNull]
NotJSON == [readable |-> TRUE, json |-> FALSE, value |-> JNull]
FileOf(v) == [readable |-> TRUE, json |-> TRUE, value |-> v]

load_config(file) ==
    IF file.readable /\ file.json
    THEN [raised |-> FALSE, value |-> file.value]
    ELSE [raised |-> TRUE, value |-> JNull]

----------------------------------------------------------------------------
\* itertools.cycle over a list: the list iterator is consumed once, its items
\* saved, and the saved items are then replayed by index

cycle(iterable) ==
    [none |-> FALSE, src |-> iterable, pos |-> 0, saved |-> <<>>, index |-> 0]

\* key_cycle = None
None == [none |-> TRUE, src |-> <<>>, pos |-> 0, saved |-> <<>>, index |-> 0]

\* next(cycle) with the index left where it was read
NextStale(c) ==
    IF c.pos < Len(c.src)
    THEN [item |-> c.src[c.pos + 1], at |-> c.pos,
          cycle |-> [c EXCEPT !.saved = Append(@, c.src[c.pos + 1])]]
    ELSE [item |-> c.saved[c.index + 1], at |-> c.index, cycle |-> c]

\* next(cycle) with the replay starting one item late
NextSkipFirst(c) ==
    IF c.pos < Len(c.src)
    THEN [item |-> c.src[c.pos + 1], at |-> c.pos,
          cycle |-> [c EXCEPT !.pos = @ + 1, !.saved = Append(@, c.src[c.pos + 1]),
                              !.index = IF c.pos + 1 = Len(c.src) /\ Len(c.src) > 1
                                        THEN 1 ELSE 0]]
    ELSE [item |-> c.saved[c.index + 1], at |-> c.index,
          cycle |-> [c EXCEPT !.index = IF @ + 1 >= Len(c.saved) THEN 0 ELSE @ + 1]]

\* next(cycle), for a cycle over a non-empty list
Next_(c) ==
    IF c.pos < Len(c.src)
    THEN [item |-> c.src[c.pos + 1], at |-> c.pos,
          cycle |-> [c EXCEPT !.pos = @ + 1, !.saved = Append(@, c.src[c.pos + 1])]]
    ELSE [item |-> c.saved[c.index + 1], at |-> c.index,
          cycle |-> [c EXCEPT !.index = IF @ + 1 >= Len(c.saved) THEN 0 ELSE @ + 1]]

\* get_next_key with the iterator left where it was
get_next_key_peek(kc) ==
    IF kc /= None
    THEN [key |-> Next_(kc).item, key_cycle |-> kc]
    ELSE [key |-> "", key_cycle |-> kc]

\* get_next_key: the key and the key_cycle left behind
get_next_key(kc) ==
    IF kc /= None
    THEN [key |-> Next_(kc).item, key_cycle |-> Next_(kc).cycle]
    ELSE [key |-> "", key_cycle |-> kc]

----------------------------------------------------------------------------
\* Configurations

ConfigA ==
    JObject(Some(FALSE), Some("http://a/"), Some("ua-a"), Some(JList(<<"k1", "k2">>)))
ConfigB ==
    JObject(Some(TRUE), Some("http://b"), Some("ua-b"), Some(JList(<<"k3">>)))
ConfigDefaults == JObject(Missing, Missing, Missing, Missing)     \* {}
ConfigKeysNumber ==
    JObject(Some(TRUE), Some("http://c"), Some("ua-c"), Some(JNumber))
ConfigKeysNull ==
    JObject(Some(TRUE), Some("http://d"), Some("ua-d"), Some(JNull))

StartConfigs == {ConfigA, ConfigB, ConfigDefaults}

Files ==
    {Unreadable, NotJSON, FileOf(JTopLevelList)}
        \cup { FileOf(c) : c \in StartConfigs \cup {ConfigKeysNumber, ConfigKeysNull} }

----------------------------------------------------------------------------
\* Module load (lines 19-33)

NoResponse == [status |-> "none", keys_count |-> 0]
OkResponse(n) == [status |-> "ok", keys_count |-> n]
ErrorResponse == [status |-> "error", keys_count |-> 0]

NoHeaders == [Authorization |-> <<>>, UserAgent |-> ""]
\* own: the request came with a credential of its own
NewRequest == [pc |-> "new", own |-> FALSE, headers |-> NoHeaders, url |-> ""]

Requests == 1..NumRequests

LevelOf(debug) == IF debug = TRUE THEN "DEBUG" ELSE "INFO"

InitS ==
    /\ config \in StartConfigs
    /\ DEBUG = Get(config.debug, FALSE)
    /\ ANYROUTER_URL = Get(config.anyrouter_url, "")
    /\ FIXED_UA = Get(config.user_agent, "")
    /\ API_KEYS = Get(config.api_keys, JList(<<>>))
    /\ key_cycle = IF Truthy(API_KEYS) THEN cycle(API_KEYS.items) ELSE None
    /\ logger_level = LevelOf(DEBUG)
    /\ reloads = 0
    /\ reload_response = NoResponse
    /\ rq = [r \in Requests |-> NewRequest]
    /\ calls = <<>>
    \* no body is being transformed in this specification
    /\ body = <<>> /\ result = NoResult /\ tpc = "idle"
    \* and the relay of a request is SpecRelay's subject
    /\ is_stream = FALSE /\ pc = "idle" /\ up_status = 0 /\ up_chunks = <<>>
    /\ nread = 0 /\ err = <<>> /\ held = <<>> /\ sent = <<>>
    /\ caller_status = 0 /\ attempts = 0
    /\ method = "" /\ inbound = <<>> /\ body_bytes = <<>>
    /\ authorization = <<>> /\ headers = <<>>

----------------------------------------------------------------------------
\* POST /reload: reload_config runs without an await, so it is one step

\* ReloadEffect with key_cycle left out of the global statement: line 138
\* binds a local, the module's key_cycle stays
ReloadEffectLocalCycle(file) ==
    LET loaded == load_config(file)
        old == [config |-> config, DEBUG |-> DEBUG, ANYROUTER_URL |-> ANYROUTER_URL,
                FIXED_UA |-> FIXED_UA, API_KEYS |-> API_KEYS, key_cycle |-> key_cycle,
                logger_level |-> logger_level, raised |-> 0]
        c == loaded.value
        keys == Get(c.api_keys, JList(<<>>))
        read == [old EXCEPT !.config = c,
                            !.DEBUG = Get(c.debug, FALSE),
                            !.ANYROUTER_URL = Get(c.anyrouter_url, ""),
                            !.FIXED_UA = Get(c.user_agent, ""),
                            !.API_KEYS = keys]
        bound == [read EXCEPT !.logger_level = LevelOf(read.DEBUG)]
    IN  IF loaded.raised THEN [old EXCEPT !.raised = 133]
        ELSE IF c.type /= "dict" THEN [old EXCEPT !.config = c, !.raised = 134]
        ELSE IF Truthy(keys) /\ ~ Iterable(keys) THEN [read EXCEPT !.raised = 138]
        ELSE IF ~ Sized(keys) THEN [bound EXCEPT !.raised = 140]
        ELSE bound

\* the globals after the try block, and the line it raised at (0: it did not)
ReloadEffect(file) ==
    LET loaded == load_config(file)
        old == [config |-> config, DEBUG |-> DEBUG, ANYROUTER_URL |-> ANYROUTER_URL,
                FIXED_UA |-> FIXED_UA, API_KEYS |-> API_KEYS, key_cycle |-> key_cycle,
                logger_level |-> logger_level, raised |-> 0]
        c == loaded.value
        keys == Get(c.api_keys, JList(<<>>))
        read == [old EXCEPT !.config = c,
                            !.DEBUG = Get(c.debug, FALSE),
                            !.ANYROUTER_URL = Get(c.anyrouter_url, ""),
                            !.FIXED_UA = Get(c.user_agent, ""),
                            !.API_KEYS = keys]
        bound == [read EXCEPT !.key_cycle = IF Truthy(keys) THEN cycle(keys.items) ELSE None,
                              !.logger_level = LevelOf(read.DEBUG)]
    IN  IF loaded.raised THEN [old EXCEPT !.raised = 133]
        ELSE IF c.type /= "dict" THEN [old EXCEPT !.config = c, !.raised = 134]
        ELSE IF Truthy(keys) /\ ~ Iterable(keys) THEN [read EXCEPT !.raised = 138]
        ELSE IF ~ Sized(keys) THEN [bound EXCEPT !.raised = 140]
        ELSE bound

reload_config(file) ==
    /\ reloads < MaxReloads
    /\ LET e == ReloadEffect(file)
           rebound == e.raised \in {0, 140}
       IN  /\ config' = e.config
           /\ DEBUG' = e.DEBUG
           /\ ANYROUTER_URL' = e.ANYROUTER_URL
           /\ FIXED_UA' = e.FIXED_UA
           /\ API_KEYS' = e.API_KEYS
           /\ key_cycle' = e.key_cycle
           /\ logger_level' = e.logger_level
           /\ reload_response' = IF e.raised = 0
                                 THEN OkResponse(Len(e.API_KEYS.items))
                                 ELSE ErrorResponse
           /\ calls' = IF rebound THEN <<>> ELSE calls
    /\ reloads' = reloads + 1
    /\ UNCHANGED rq
    /\ UNCHANGED <<varsT, varsR, varsP>>

----------------------------------------------------------------------------
\* proxy: a request arrives and its coroutine waits for request.body()

\* the inbound Authorization header: missing, "Bearer " or "Bearer caller-key"
Auths == {Missing, Some(<<"Bearer", " ">>), Some(<<"Bearer", " ", "caller-key">>)}

Arrive(r) ==
    /\ rq[r].pc = "new"
    /\ \A q \in 1..(r - 1) : rq[q].pc /= "new"
    /\ rq' = [rq EXCEPT ![r].pc = "body"]
    /\ UNCHANGED <<config, DEBUG, ANYROUTER_URL, FIXED_UA, API_KEYS, key_cycle,
                   logger_level, reloads, reload_response, calls>>
    /\ UNCHANGED <<varsT, varsR, varsP>>

\* line 151: the client passed a key, the header holds more than a scheme
CarriesCredential(h) == Len(strip(Get(h, <<>>))) > 1

\* request.headers.get("Authorization", "") without the strip()
InboundAuthAsSent(auth) == Get(auth, <<>>)

\* request.headers.get("Authorization", "").strip()
InboundAuth(auth) == strip(Get(auth, <<>>))

\* f"Bearer {key}", whatever the key
BearerAlways(key) == <<"Bearer", " ", key>>

\* f"Bearer {key}" if key else ""
Bearer(key) == IF key = "" THEN <<>> ELSE <<"Bearer", " ", key>>

\* lines 152-155 for a request with this Authorization header: the auth local
\* afterwards, whether get_next_key was called, and the key_cycle it left
authorize(header, kc) ==
    LET auth == InboundAuth(header)
        rotate == auth = <<>> \/ auth = <<"Bearer">>
        got == get_next_key(kc)
    IN  [auth |-> IF rotate THEN Bearer(got.key) ELSE auth,
         called |-> rotate,
         key_cycle |-> IF rotate THEN got.key_cycle ELSE kc]

\* lines 152-163, from the body's arrival to the upstream call: no await.
\* The request's Authorization header is drawn where the handler reads it.
Handle(r, header) ==
    /\ rq[r].pc = "body"
    /\ LET auth == InboundAuth(header)
           rotate == auth = <<>> \/ auth = <<"Bearer">>
           got == get_next_key(key_cycle)
           out == IF rotate THEN Bearer(got.key) ELSE auth
       IN  /\ rq' = [rq EXCEPT ![r] =
                        [@ EXCEPT !.pc = "upstream",
                                  !.own = CarriesCredential(header),
                                  !.headers = [Authorization |-> out,
                                               UserAgent |-> FIXED_UA],
                                  !.url = ANYROUTER_URL]]
           /\ key_cycle' = IF rotate THEN got.key_cycle ELSE key_cycle
           /\ calls' = IF rotate /\ key_cycle /= None
                       THEN Append(calls, [req |-> r, key |-> got.key,
                                           at |-> Next_(key_cycle).at])
                       ELSE calls
    /\ UNCHANGED <<config, DEBUG, ANYROUTER_URL, FIXED_UA, API_KEYS, logger_level,
                   reloads, reload_response>>
    /\ UNCHANGED <<varsT, varsR, varsP>>

NextS ==
    \/ \E file \in Files : reload_config(file)
    \/ \E r \in Requests : Arrive(r)
    \/ \E r \in Requests, header \in Auths : Handle(r, header)

----------------------------------------------------------------------------
\* The relay (lines 177-196)

\* the upstream's answers
Statuses == {200, 201, 429, 500}
Chunks == { <<"x">>, <<"y">> }
ChunkSeqs(n) == [1..n -> Chunks]

\* the bytes of a chunk sequence
RECURSIVE Concat(_)
Concat(chunks) == IF chunks = <<>> THEN <<>> ELSE Head(chunks) \o Concat(Tail(chunks))

\* resp.status_code != 200 taken as: the status is a server error
IsErrorServerOnly(status_code) == status_code >= 500

\* line 183
IsError(status_code) == status_code /= 200

\* StreamingResponse(...) without status_code=
BufferedResponseDefaultStatus(status_code, content) ==
    [status_code |-> 200, chunks |-> <<content>>]

\* line 196: StreamingResponse(content=iter([resp.content]), status_code=resp.status_code)
BufferedResponse(status_code, content) ==
    [status_code |-> status_code, chunks |-> <<content>>]

\* line 192: StreamingResponse(stream(), media_type="text/event-stream")
StreamStatus == 200

InitR ==
    /\ is_stream \in BOOLEAN
    /\ pc = "dispatch"
    /\ up_status = 0 /\ up_chunks = <<>>
    /\ nread = 0 /\ err = <<>> /\ held = <<>> /\ sent = <<>>
    /\ caller_status = 0 /\ attempts = 0
    \* transform_body and the server are not part of this specification
    /\ body = <<>> /\ result = NoResult /\ tpc = "idle"
    /\ config = <<>> /\ DEBUG = FALSE /\ ANYROUTER_URL = "" /\ FIXED_UA = ""
    /\ API_KEYS = <<>> /\ key_cycle = <<>> /\ logger_level = "INFO"
    /\ reloads = 0 /\ reload_response = <<>> /\ rq = <<>>
    /\ calls = <<>>
    /\ method = "" /\ inbound = <<>> /\ body_bytes = <<>>
    /\ authorization = <<>> /\ headers = <<>>

\* lines 179, 192-194: the streaming response starts with its status line and
\* then runs the generator; the buffered path goes on to the POST
Dispatch ==
    /\ pc = "dispatch"
    /\ IF is_stream
       THEN caller_status' = StreamStatus /\ pc' = "connect"
       ELSE caller_status' = caller_status /\ pc' = "post"
    /\ UNCHANGED <<is_stream, up_status, up_chunks, nread, err, held, sent, attempts>>
    /\ UNCHANGED <<varsT, varsS, varsP>>

\* lines 181-184, 189: client.stream(...) is answered with a status line
Connect(status_code, chunks) ==
    /\ pc = "connect"
    /\ attempts' = attempts + 1
    /\ up_status' = status_code
    /\ up_chunks' = chunks
    /\ pc' = IF IsError(status_code) THEN "drain" ELSE "relay"
    /\ UNCHANGED <<is_stream, nread, err, held, sent, caller_status>>
    /\ UNCHANGED <<varsT, varsS, varsP>>

\* lines 185-186: one iteration of the draining loop
DrainChunk ==
    /\ pc = "drain"
    /\ nread < Len(up_chunks)
    /\ err' = err \o up_chunks[nread + 1]
    /\ nread' = nread + 1
    /\ UNCHANGED <<is_stream, pc, up_status, up_chunks, held, sent, caller_status,
                   attempts>>
    /\ UNCHANGED <<varsT, varsS, varsP>>

\* lines 187-188: the loop is over, the error is logged and yielded
YieldErr ==
    /\ pc = "drain"
    /\ nread = Len(up_chunks)
    /\ sent' = Append(sent, err)
    /\ pc' = "closing"
    /\ UNCHANGED <<is_stream, up_status, up_chunks, nread, err, held, caller_status,
                   attempts>>
    /\ UNCHANGED <<varsT, varsS, varsP>>

\* line 190: the next chunk arrives
ReadChunk ==
    /\ pc = "relay"
    /\ nread < Len(up_chunks)
    /\ held' = up_chunks[nread + 1]
    /\ nread' = nread + 1
    /\ pc' = "forward"
    /\ UNCHANGED <<is_stream, up_status, up_chunks, err, sent, caller_status, attempts>>
    /\ UNCHANGED <<varsT, varsS, varsP>>

\* line 191: yield chunk
Forward ==
    /\ pc = "forward"
    /\ sent' = Append(sent, held)
    /\ held' = <<>>
    /\ pc' = "relay"
    /\ UNCHANGED <<is_stream, up_status, up_chunks, nread, err, caller_status, attempts>>
    /\ UNCHANGED <<varsT, varsS, varsP>>

\* the upstream body is over, or the generator is resumed after yield err:
\* the two async with blocks are left
Close ==
    /\ \/ pc = "relay" /\ nread = Len(up_chunks)
       \/ pc = "closing"
    /\ pc' = "done"
    /\ UNCHANGED <<is_stream, up_status, up_chunks, nread, err, held, sent,
                   caller_status, attempts>>
    /\ UNCHANGED <<varsT, varsS, varsP>>

\* lines 194-196: the buffered round trip and its response
Post(status_code, chunks) ==
    /\ pc = "post"
    /\ attempts' = attempts + 1
    /\ up_status' = status_code
    /\ up_chunks' = chunks
    /\ nread' = Len(chunks)
    /\ LET response == BufferedResponse(status_code, Concat(chunks))
       IN  /\ caller_status' = response.status_code
           /\ sent' = response.chunks
    /\ pc' = "done"
    /\ UNCHANGED <<is_stream, err, held>>
    /\ UNCHANGED <<varsT, varsS, varsP>>

\* TransportFailure with the call issued again when it fails before an answer
TransportFailureRetry ==
    /\ pc \in {"connect", "drain", "relay", "post"}
    /\ attempts' = IF pc \in {"connect", "post"} THEN attempts + 1 ELSE attempts
    /\ pc' = IF pc \in {"connect", "post"} THEN pc ELSE "failed"
    /\ UNCHANGED <<is_stream, up_status, up_chunks, nread, err, held, sent,
                   caller_status>>
    /\ UNCHANGED <<varsT, varsS, varsP>>

\* connection refused, timeout, a broken body: httpx raises at the await the
\* coroutine stands at, and nothing catches it
TransportFailure ==
    /\ pc \in {"connect", "drain", "relay", "post"}
    /\ attempts' = IF pc \in {"connect", "post"} THEN attempts + 1 ELSE attempts
    \* the handler raised before any response: the server answers 500; the
    \* streaming response has started, its status line stays
    /\ caller_status' = IF pc = "post" THEN 500 ELSE caller_status
    /\ pc' = "failed"
    /\ UNCHANGED <<is_stream, up_status, up_chunks, nread, err, held, sent>>
    /\ UNCHANGED <<varsT, varsS, varsP>>

NextR ==
    \/ Dispatch
    \/ \E status_code \in Statuses, n \in 0..MaxChunks :
           \E chunks \in ChunkSeqs(n) : Connect(status_code, chunks)
    \/ DrainChunk
    \/ YieldErr
    \/ ReadChunk
    \/ Forward
    \/ Close
    \/ \E status_code \in Statuses, n \in 0..MaxChunks :
           \E chunks \in ChunkSeqs(n) : Post(status_code, chunks)
    \/ TransportFailure

----------------------------------------------------------------------------
\* json.dumps: the text is a sequence of fragments, as every text here. The
\* separators are ", " and ": "; a quote or a newline inside a str is escaped.

Quote == "\""

Escape(t) ==
    [i \in 1..Len(t) |->
        IF t[i] = Quote THEN "\\\"" ELSE IF t[i] = "\n" THEN "\\n" ELSE t[i]]

JStr(t) == <<Quote>> \o Escape(t) \o <<Quote>>
JKey(k) == <<Quote, k, Quote, ":", " ">>

RECURSIVE JoinComma(_)
JoinComma(parts) ==
    IF parts = <<>> THEN <<>>
    ELSE IF Len(parts) = 1 THEN parts[1]
    ELSE parts[1] \o <<",", " ">> \o JoinComma(Tail(parts))

JDict(entries) == <<"{">> \o JoinComma(entries) \o <<"}">>
JArr(items) == <<"[">> \o JoinComma(items) \o <<"]">>
JBool(v) == IF v THEN <<"true">> ELSE <<"false">>
JInt(n) == <<ToString(n)>>

\* the entry of a key, if the dict holds the key
JEntry(k, entry, value) == IF entry = Missing THEN <<>> ELSE <<JKey(k) \o value>>

DumpsBlock(block) ==
    JDict(<<JKey("type") \o JStr(<<block.type>>), JKey("text") \o JStr(block.text)>>
          \o IF block.cache_control = Absent THEN <<>>
             ELSE <<JKey("cache_control")
                      \o JDict(<<JKey("type") \o JStr(<<block.cache_control>>)>>)>>)

DumpsBlocks(blocks) == JArr([i \in 1..Len(blocks) |-> DumpsBlock(blocks[i])])

DumpsContent(c) == IF c.kind = "str" THEN JStr(c.text) ELSE DumpsBlocks(c.blocks)

DumpsMsg(msg) ==
    JDict(<<JKey("role") \o JStr(<<msg.role>>),
            JKey("content") \o DumpsContent(msg.content)>>)

\* the body's keys other than system, in the order the model keeps them
DumpsKeys(b) ==
    <<JKey("messages") \o JArr([i \in 1..Len(b.messages) |-> DumpsMsg(b.messages[i])])>>
    \o JEntry("metadata", b.metadata,
              JDict(<<JKey("stream") \o JBool(Get(b.metadata, FALSE))>>))
    \o JEntry("max_tokens", b.max_tokens, JInt(Get(b.max_tokens, 0)))
    \o JEntry("temperature", b.temperature, JInt(Get(b.temperature, 0)))
    \o JEntry("stream", b.stream, JBool(Get(b.stream, FALSE)))

\* line 171: json.dumps(body) of the body transform_body returned
dumps(b) == JDict(<<JKey("system") \o DumpsBlocks(b.system)>> \o DumpsKeys(b))

\* the bytes of a request whose body is the JSON text of b, the system a str
\* or left out
RequestJSON(b) ==
    JDict((IF b.system.kind = "str"
           THEN <<JKey("system") \o JStr(b.system.text)>> ELSE <<>>)
          \o DumpsKeys(b))

----------------------------------------------------------------------------
\* The request body (line 149) and what json.loads makes of it (line 167)

\* b"": no body
NoBody == [bytes |-> <<>>, decodes |-> FALSE, json |-> FALSE, dict |-> FALSE,
           value |-> <<>>]
\* b"\x80": not UTF-8, bytes.decode raises before the parser runs
NotUTF8 == [bytes |-> <<"\\x80">>, decodes |-> FALSE, json |-> FALSE,
            dict |-> FALSE, value |-> <<>>]
\* text that is not JSON: the parser raises JSONDecodeError
NotJSONBody(tokens) == [bytes |-> tokens, decodes |-> TRUE, json |-> FALSE,
                        dict |-> FALSE, value |-> <<>>]
\* b"[]": JSON, and not an object
JSONArrayBody == [bytes |-> <<"[", "]">>, decodes |-> TRUE, json |-> TRUE,
                  dict |-> FALSE, value |-> <<>>]
\* the JSON text of the object b
JSONObjectBody(b) == [bytes |-> RequestJSON(b), decodes |-> TRUE, json |-> TRUE,
                      dict |-> TRUE, value |-> b]

loads(inb) ==
    IF ~ inb.decodes THEN [raised |-> "UnicodeDecodeError", value |-> <<>>]
    ELSE IF ~ inb.json THEN [raised |-> "JSONDecodeError", value |-> <<>>]
    ELSE [raised |-> "", value |-> inb.value]

\* needle in haystack, of bytes
Contains(haystack, needle) ==
    \E i \in 1..(Len(haystack) - Len(needle) + 1) :
        SubSeq(haystack, i, i + Len(needle) - 1) = needle

\* line 177
IsStream(bytes) ==
    \/ Contains(bytes, <<Quote, "stream", Quote, ":", " ", "true">>)
    \/ Contains(bytes, <<Quote, "stream", Quote, ":", "true">>)

\* lines 165-175: the exception that leaves the handler ("": none), whether
\* transform_body returned, and body_bytes at line 177
prepare(m, inb) ==
    LET loaded == loads(inb)
        transformed == transform_body(loaded.value)
        as_is == [raised |-> "", parsed |-> FALSE, value |-> <<>>,
                  result |-> NoResult, body_bytes |-> inb.bytes]
    IN  IF ~ (m = "POST" /\ inb.bytes /= <<>>) THEN as_is
        ELSE IF loaded.raised = "JSONDecodeError" THEN as_is
        ELSE IF loaded.raised /= "" THEN [as_is EXCEPT !.raised = loaded.raised]
        ELSE IF ~ inb.dict THEN [as_is EXCEPT !.raised = "AttributeError"]
        ELSE IF transformed.raised
             THEN [as_is EXCEPT !.raised = "IndexError", !.value = loaded.value]
        ELSE [raised |-> "", parsed |-> TRUE, value |-> loaded.value,
              result |-> transformed, body_bytes |-> dumps(transformed.body)]

----------------------------------------------------------------------------
\* SpecProxy: one request from its body's arrival to the end of its relay

\* line 147
Methods == {"GET", "POST", "PUT", "DELETE"}

\* the bodies that are not a JSON object; the last is a cut-off JSON text
OtherBodies ==
    { NoBody, NotUTF8, JSONArrayBody,
      NotJSONBody(<<"x">>),
      NotJSONBody(<<"{", Quote, "stream", Quote, ":", "true">>) }

\* message lists: none, a user turn, a user turn whose text is the literal
\* line 177 looks for, and two user turns of which the first has no block
ProxyMessages ==
    { <<>>,
      <<Msg("user", StrC(<<"a">>))>>,
      <<Msg("user", StrC(<<Quote, "stream", Quote, ":", " ", "true">>))>>,
      <<Msg("user", ListC(<<>>)), Msg("user", StrC(<<"a">>))>> }

ProxySystems == { NoSystem, StrSystem(<<"s">>) }

\* the caller's max_tokens, temperature, stream and metadata.stream
CallerMaxTokens == { Missing, Some(1024) }
CallerTemperature == { Missing, Some(0) }
CallerStream == { Missing, Some(TRUE), Some(FALSE) }

\* the Authorization header of the request: missing, empty, blank, the bare
\* scheme, and two with a credential
InboundHeaders ==
    { Missing, Some(<<>>), Some(<<" ">>), Some(<<"Bearer">>), Some(<<"Bearer", " ">>),
      Some(<<"Bearer", " ", "caller-key">>), Some(<<"Basic", " ", "caller-cred">>) }

\* a body that goes the streaming way and one that goes the buffered way
PathBodies ==
    { JSONObjectBody(InboundBody(NoSystem, <<>>)),
      JSONObjectBody([InboundBody(NoSystem, <<>>) EXCEPT !.stream = Some(FALSE)]) }

\* next(kc) called n times by the requests before this one
RECURSIVE Advance(_, _)
Advance(kc, n) ==
    IF n = 0 \/ kc = None THEN kc ELSE Advance(Next_(kc).cycle, n - 1)

\* the requests of the model: every body with no Authorization header under
\* ConfigA, and every Authorization header with the bodies of PathBodies
\* under every configuration
InitP ==
    /\ method \in Methods
    /\ \/ /\ config = ConfigA
          /\ authorization = Missing
          /\ \/ inbound \in OtherBodies
             \/ \E system \in ProxySystems, messages \in ProxyMessages,
                   max_tokens \in CallerMaxTokens, temperature \in CallerTemperature,
                   stream \in CallerStream, metadata \in CallerStream :
                     inbound = JSONObjectBody(
                         [InboundBody(system, messages) EXCEPT
                             !.max_tokens = max_tokens, !.temperature = temperature,
                             !.stream = stream, !.metadata = metadata])
          /\ key_cycle = cycle(Get(config.api_keys, JList(<<>>)).items)
       \/ /\ config \in StartConfigs
          /\ authorization \in InboundHeaders
          /\ inbound \in PathBodies
          /\ \E n \in 0..1 :
                 key_cycle = Advance(IF Truthy(Get(config.api_keys, JList(<<>>)))
                                     THEN cycle(Get(config.api_keys, JList(<<>>)).items)
                                     ELSE None, n)
    /\ DEBUG = Get(config.debug, FALSE)
    /\ ANYROUTER_URL = Get(config.anyrouter_url, "")
    /\ FIXED_UA = Get(config.user_agent, "")
    /\ API_KEYS = Get(config.api_keys, JList(<<>>))
    /\ logger_level = LevelOf(DEBUG)
    /\ reloads = 0 /\ reload_response = NoResponse /\ rq = <<>> /\ calls = <<>>
    /\ body_bytes = inbound.bytes
    /\ headers = <<>>
    /\ pc = "body"
    /\ is_stream = FALSE
    /\ up_status = 0 /\ up_chunks = <<>>
    /\ nread = 0 /\ err = <<>> /\ held = <<>> /\ sent = <<>>
    /\ caller_status = 0 /\ attempts = 0
    /\ body = <<>> /\ result = NoResult /\ tpc = "idle"

\* lines 152-177: no await, one step. An exception that nothing catches ends
\* the handler, and the server answers 500.
PrepareRequest ==
    /\ pc = "body"
    /\ LET a == authorize(authorization, key_cycle)
       IN  /\ headers' = [Authorization |-> Some(a.auth),
                          ContentType |-> Some("application/json"),
                          UserAgent |-> Some(FIXED_UA)]
           /\ key_cycle' = a.key_cycle
    /\ LET p == prepare(method, inbound)
       IN  /\ body' = IF p.value = <<>> THEN body ELSE p.value
           /\ result' = p.result
           /\ tpc' = IF p.parsed THEN "done" ELSE tpc
           /\ body_bytes' = p.body_bytes
           /\ IF p.raised = ""
              THEN /\ is_stream' = IsStream(p.body_bytes)
                   /\ pc' = "dispatch"
                   /\ caller_status' = caller_status
              ELSE /\ is_stream' = is_stream
                   /\ pc' = "raised"
                   /\ caller_status' = 500
    /\ UNCHANGED <<method, inbound, authorization>>
    /\ UNCHANGED <<up_status, up_chunks, nread, err, held, sent, attempts>>
    /\ UNCHANGED <<config, DEBUG, ANYROUTER_URL, FIXED_UA, API_KEYS, logger_level,
                   reloads, reload_response, rq, calls>>

NextP ==
    \/ PrepareRequest
    \/ NextR


SpecT ==InitT /\ [][NextT]_vars

Spec == InitS /\ [][NextS]_vars

SpecRelay == InitR /\ [][NextR]_vars

SpecProxy == InitP /\ [][NextP]_vars

----------------------------------------------------------------------------
\* Claims about transform_body (SpecT)

Returned == tpc = "done" /\ ~ result.raised
OutMsgs == result.body.messages
InMsgs == body.messages

\* C1: whatever the inbound message list, the message list transform_body
\* produces has no two adjacent turns with the same role.
C1_NoAdjacentSameRole ==
    Returned =>
        \A i \in 1..(Len(OutMsgs) - 1) : OutMsgs[i].role /= OutMsgs[i + 1].role

\* a run of three same-role turns went in, and more than one turn came out
C1_Witness ==
    /\ Returned
    /\ Len(InMsgs) = 3
    /\ \E i \in 1..2 : InMsgs[i].role = InMsgs[i + 1].role
                       /\ ~ IsEmptyAssistant(InMsgs[i])
                       /\ ~ IsEmptyAssistant(InMsgs[i + 1])
    /\ Len(OutMsgs) = 2

BeginsWithWrapper(msg, user_system) ==
    /\ msg.content.kind = "list"
    /\ msg.content.blocks /= <<>>
    /\ StartsWith(msg.content.blocks[1].text, Prefix(user_system))

\* C2: with a user turn in the list and a non-empty caller system text,
\* exactly one user turn of the outbound list begins with the wrapper, it is
\* the one that comes from the first user turn of the input (string content,
\* block list or empty block list), and the injection step changes no other
\* turn.
C2_InjectedExactlyOnce ==
    LET user_system == get_user_system_text(body.system)
        wrapped == { i \in 1..Len(OutMsgs) :
                        /\ OutMsgs[i].role = "user"
                        /\ BeginsWithWrapper(OutMsgs[i], user_system) }
    IN  (Returned /\ user_system /= <<>> /\ FirstUser(InMsgs) /= 0) =>
            /\ wrapped = {FirstUser(OutMsgs)}
            /\ \A i \in 1..Len(InMsgs) :
                   i /= FirstUser(InMsgs) => Inject(InMsgs, user_system)[i] = InMsgs[i]

\* C3: in every outbound payload every turn's content is a block sequence
\* and every block of it carries a cache_control annotation.
C3_EveryBlockAnnotated ==
    Returned =>
        \A i \in 1..Len(OutMsgs) :
            /\ OutMsgs[i].content.kind = "list"
            /\ \A j \in 1..Len(OutMsgs[i].content.blocks) :
                   OutMsgs[i].content.blocks[j].cache_control /= Absent

\* a str content was lifted, and a two-block list with an unannotated second
\* block and one with a caller annotation went through
C3_Witness ==
    /\ Returned
    /\ Len(OutMsgs) = 3
    /\ \E i \in 1..3 : InMsgs[i].content.kind = "str"
    /\ \E i \in 1..3 : /\ Len(InMsgs[i].content.blocks) = 2
                       /\ InMsgs[i].content.blocks[2].cache_control = Absent
                       /\ Len(OutMsgs[i].content.blocks) = 2
    /\ \E i \in 1..3 : /\ Len(OutMsgs[i].content.blocks) = 2
                       /\ OutMsgs[i].content.blocks[2].cache_control = CUSTOM

\* some block of the content, or the str itself, has text that is not blank
HasText(c) ==
    IF c.kind = "str" THEN strip(c.text) /= <<>>
    ELSE \E j \in 1..Len(c.blocks) : strip(c.blocks[j].text) /= <<>>

\* C16: whatever the inbound message list, no assistant turn of the outbound
\* list is entirely blank: each has a block with non-blank text, the turns
\* that come from merging assistant turns with several blocks included.
C16_NoBlankAssistant ==
    Returned =>
        \A i \in 1..Len(OutMsgs) :
            OutMsgs[i].role = "assistant" => HasText(OutMsgs[i].content)

\* the whole text of a turn: the str, or the texts of all its blocks
RECURSIVE BlocksText(_)
BlocksText(blocks) ==
    IF blocks = <<>> THEN <<>> ELSE Head(blocks).text \o BlocksText(Tail(blocks))

TurnText(c) == IF c.kind = "str" THEN c.text ELSE BlocksText(c.blocks)

\* "\n".join(texts)
RECURSIVE JoinNewline(_)
JoinNewline(texts) ==
    IF texts = <<>> THEN <<>>
    ELSE IF Len(texts) = 1 THEN texts[1]
    ELSE texts[1] \o <<"\n">> \o JoinNewline(Tail(texts))

\* the turns that are kept, after the injection
Retained ==
    SelectSeq(Inject(InMsgs, get_user_system_text(body.system)),
              LAMBDA msg : ~ IsEmptyAssistant(msg))

\* the maximal runs of same-role turns of a list, in order
RECURSIVE RunsOf(_, _)
RunsOf(msgs, runs) ==
    IF msgs = <<>> THEN runs
    ELSE LET n == Len(runs)
         IN  IF n > 0 /\ runs[n][1].role = Head(msgs).role
             THEN RunsOf(Tail(msgs), [runs EXCEPT ![n] = Append(@, Head(msgs))])
             ELSE RunsOf(Tail(msgs), Append(runs, <<Head(msgs)>>))

\* C17: a run of k >= 2 consecutive retained turns of one role comes out as
\* one turn with a single annotated text block whose text is the texts of the
\* run's turns, in order, joined by newlines; no text of a merged turn is
\* lost, a turn with several blocks included.
C17_RunMergedWithAllText ==
    Returned =>
        LET runs == RunsOf(Retained, <<>>)
        IN  /\ Len(OutMsgs) = Len(runs)
            /\ \A j \in 1..Len(runs) :
                   Len(runs[j]) >= 2 =>
                       OutMsgs[j].content =
                           ListC(<<Block(JoinNewline(
                                       [i \in 1..Len(runs[j]) |->
                                           TurnText(runs[j][i].content)]),
                                   EPHEMERAL)>>)

\* C18: transform_body is total on message lists whose turns have a role and
\* a str or block-list content (the empty block list and adjacent same-role
\* turns included): every call returns a payload, none raises.
C18_TransformTotal ==
    tpc = "done" => ~ result.raised

----------------------------------------------------------------------------
\* Claims about the rotator and /reload (Spec)

Range(seq) == { seq[i] : i \in 1..Len(seq) }

\* the pool the bound key_cycle object iterates
Pool == key_cycle.src

\* the Authorization header of a request that was handed key
Holds(r, key) == rq[r].pc = "upstream" /\ rq[r].headers.Authorization = Bearer(key)

\* C4: with a pool of N >= 1 credentials and no reload in between, the calls
\* to get_next_key return the pool's elements in pool order, each once per
\* cycle, and call N+1 returns what call 1 returned.
C4_RoundRobin ==
    key_cycle /= None =>
        \A i \in 1..Len(calls) : calls[i].key = Pool[((i - 1) % Len(Pool)) + 1]

\* a pool of two was walked once, and the third call came back to the first
C4_Witness ==
    /\ key_cycle /= None
    /\ Len(Pool) = 2
    /\ Len(calls) = 3
    /\ calls[1].key /= calls[2].key
    /\ calls[3].key = calls[1].key
    /\ \A r \in Requests : Holds(r, calls[r].key)

\* C5: however the in-flight requests without a caller credential interleave,
\* no two of them are handed the same cursor position of the same cycle (any
\* k <= N calls in a row get k distinct pool entries, each request its own),
\* and the cursor always points at a position of the pool.
C5_AtomicAdvance ==
    key_cycle /= None =>
        /\ \A i, j \in 1..Len(calls) :
               (i < j /\ j - i < Len(Pool)) =>
                   /\ calls[i].at /= calls[j].at
                   /\ calls[i].req /= calls[j].req
        /\ \A i \in 1..Len(calls) : calls[i].at \in 0..(Len(Pool) - 1)
        /\ key_cycle.pos \in 0..Len(Pool)
        /\ key_cycle.saved = SubSeq(Pool, 1, key_cycle.pos)
        /\ key_cycle.index \in 0..(Len(Pool) - 1)
        /\ key_cycle.pos < Len(Pool) => key_cycle.index = 0

\* two requests waited for their bodies at once, the later arrival was handled
\* first, and the two hold different credentials
C5_Witness ==
    /\ key_cycle /= None
    /\ Len(calls) = 2
    /\ calls[1].req = 2 /\ calls[2].req = 1
    /\ calls[1].key /= calls[2].key
    /\ Holds(1, calls[2].key) /\ Holds(2, calls[1].key)
    /\ rq[3].pc = "body"

ActiveState == <<config, DEBUG, ANYROUTER_URL, FIXED_UA, API_KEYS, key_cycle>>

\* C6: a reload that reports a failure leaves config, DEBUG, ANYROUTER_URL,
\* FIXED_UA, API_KEYS and the rotator's pool and cursor as they were.
C6_ReloadAllOrNothing ==
    [][(reloads' = reloads + 1 /\ reload_response'.status = "error")
           => UNCHANGED ActiveState]_vars

\* C7: the first get_next_key call after a reload that rebuilt the rotator
\* returns the first credential of the new pool, every credential handed out
\* is an element of the pool the rotator holds at that call, and the rotator
\* never pairs a cursor with a pool other than the active API_KEYS list.
C7_ReloadResetsRotator ==
    /\ API_KEYS.type = "list" =>
           IF API_KEYS.items = <<>>
           THEN key_cycle = None
           ELSE key_cycle /= None /\ Pool = API_KEYS.items
    /\ key_cycle = None => calls = <<>>
    /\ key_cycle /= None =>
           /\ calls /= <<>> => calls[1].key = Pool[1]
           /\ \A i \in 1..Len(calls) : calls[i].key \in Range(Pool)

\* a request holds k1 of the old pool and none holds k2, so the old cursor
\* stood mid-cycle; the reload succeeded and the next call got the new pool's
\* first credential
C7_Witness ==
    /\ reload_response.status = "ok"
    /\ API_KEYS = JList(<<"k3">>)
    /\ \E r \in Requests : Holds(r, "k1")
    /\ ~ \E r \in Requests : Holds(r, "k2")
    /\ Len(calls) = 1
    /\ calls[1].key = "k3"
    /\ Holds(calls[1].req, "k3")

----------------------------------------------------------------------------
\* Claims about the relay (SpecRelay)

Success(status_code) == status_code \in 200..299

\* the chunk sequence p is the beginning of the chunk sequence q
IsPrefix(p, q) == Len(p) <= Len(q) /\ SubSeq(q, 1, Len(p)) = p

Answered == up_status /= 0

\* C8: on the streaming path, when the upstream answers with a non-success
\* status, nothing is sent to the caller before the whole upstream body was
\* read, and what is then sent is one chunk, the concatenation of the upstream
\* chunks in arrival order.
C8_ErrorBodyInOneChunk ==
    (is_stream /\ Answered /\ ~ Success(up_status)) =>
        /\ sent /= <<>> => nread = Len(up_chunks) /\ sent = <<Concat(up_chunks)>>
        /\ pc = "done" => sent = <<Concat(up_chunks)>>

\* a 429 with a body of two different chunks was relayed to the end
C8_Witness ==
    /\ is_stream /\ pc = "done"
    /\ up_status = 429
    /\ up_chunks = << <<"x">>, <<"y">> >>
    /\ sent = << <<"x", "y">> >>

\* C9: on the streaming path, when the upstream answers with any success
\* status, every chunk read is sent on before the next one is read: the bytes
\* sent are always a prefix of the bytes read, in order, and at most one
\* chunk read is not yet sent.
C9_SuccessRelayedChunkByChunk ==
    (is_stream /\ Answered /\ Success(up_status)) =>
        /\ IsPrefix(Concat(sent), Concat(SubSeq(up_chunks, 1, nread)))
        /\ nread - Len(sent) <= 1
        /\ pc = "done" => Concat(sent) = Concat(up_chunks)

\* C10: on the buffered path the caller gets the upstream's status code and
\* its whole body, whatever the status; on the streaming path the caller
\* gets status 200, whatever the upstream's status.
C10_StatusPassThrough ==
    /\ (~ is_stream /\ pc = "done") =>
           /\ caller_status = up_status
           /\ Concat(sent) = Concat(up_chunks)
           /\ Len(sent) = 1
    /\ (is_stream /\ pc /= "dispatch") => caller_status = 200

\* a 429 with a body of two chunks came back on the buffered path
C10_Witness ==
    /\ ~ is_stream /\ pc = "done"
    /\ up_status = 429 /\ caller_status = 429
    /\ up_chunks = << <<"x">>, <<"y">> >>
    /\ sent = << <<"x", "y">> >>

----------------------------------------------------------------------------
\* Claims about one request (SpecProxy)


\* transform_body returned for the body the request carried
Transformed == tpc = "done" /\ ~ result.raised
Caller == inbound.value
Outbound == result.body

\* C11: for every parsed inbound body the outbound system is the fixed
\* two-block preamble, whatever the caller's system was, and each of
\* max_tokens, temperature and stream holds the caller's value when the caller
\* supplied the key and the default (32000, 1, true) when the caller left it
\* out.
C11_SystemFixedParametersKept ==
    Transformed =>
        /\ Outbound.system = FIXED_SYSTEM
        /\ Outbound.max_tokens =
               IF Caller.max_tokens /= Missing THEN Caller.max_tokens ELSE <<32000>>
        /\ Outbound.temperature =
               IF Caller.temperature /= Missing THEN Caller.temperature ELSE <<1>>
        /\ Outbound.stream =
               IF Caller.stream /= Missing THEN Caller.stream ELSE <<TRUE>>

\* the caller sent a system text, max_tokens 1024 and stream false, and left
\* temperature out
C11_Witness ==
    /\ Transformed
    /\ Caller.system = StrSystem(<<"s">>)
    /\ Caller.max_tokens = <<1024>> /\ Outbound.max_tokens = <<1024>>
    /\ Caller.stream = <<FALSE>> /\ Outbound.stream = <<FALSE>>
    /\ Caller.temperature = Missing /\ Outbound.temperature = <<1>>
    /\ Outbound.system = FIXED_SYSTEM

\* a POST request whose body is there and is not JSON
Malformed == method = "POST" /\ inbound.bytes /= <<>> /\ ~ inbound.json

\* C12: a POST request with a non-empty body that is not valid structured
\* data does not fail locally: the handler raises nothing, exactly one
\* upstream call is made for it, and the body of that call is the inbound
\* bytes, unmodified.
C12_MalformedBodyPassedThrough ==
    Malformed =>
        /\ pc /= "raised"
        /\ attempts <= 1
        /\ attempts = 1 => body_bytes = inbound.bytes
        /\ pc \in {"done", "failed"} => attempts = 1

\* the header is absent, empty or blank, or the bare scheme Bearer
NoCredential(h) == strip(Get(h, <<>>)) \in {<<>>, <<"Bearer">>}

\* the step of the handler that builds the upstream headers
Prepares == pc = "body" /\ pc' /= "body"

\* the cursor of a cycle: the position of the pool entry the next call of
\* next(kc) returns, from 0
Cursor(kc) == IF kc.pos < Len(kc.src) THEN kc.pos ELSE kc.index

Upcoming(kc) == kc.src[Cursor(kc) + 1]

\* C13: the Authorization sent upstream is the caller's own value when the
\* request carries one with a credential, and it is "Bearer " followed by the
\* credential get_next_key hands out (the rotator is consulted) exactly when
\* the header is absent, empty or the bare scheme.
C13_CallerOrRotatedCredential ==
    [][Prepares =>
          /\ CarriesCredential(authorization) =>
                 /\ headers'.Authorization = authorization
                 /\ key_cycle' = key_cycle
          /\ NoCredential(authorization) =>
                 headers'.Authorization =
                     Some(<<"Bearer", " ">>
                          \o IF key_cycle = None THEN <<>> ELSE <<Upcoming(key_cycle)>>)
          /\ (key_cycle /= None /\ key_cycle' /= key_cycle) =>
                 NoCredential(authorization)]_vars

\* C13 as the code has it: as above while the pool holds a credential; with
\* an empty pool a request without a credential goes upstream with an empty
\* Authorization value, with no scheme.
C13_CallerOrRotatedOrEmpty ==
    [][Prepares =>
          /\ CarriesCredential(authorization) =>
                 /\ headers'.Authorization = authorization
                 /\ key_cycle' = key_cycle
          /\ NoCredential(authorization) =>
                 /\ headers'.Authorization =
                        IF key_cycle = None THEN Some(<<>>)
                        ELSE Some(<<"Bearer", " ", Upcoming(key_cycle)>>)
                 /\ key_cycle /= None => key_cycle' = Next_(key_cycle).cycle
          /\ (key_cycle /= None /\ key_cycle' /= key_cycle) =>
                 NoCredential(authorization)]_vars

\* a request with the bare scheme was given the second credential of the
\* pool, the first one being out already
C13_Witness ==
    /\ pc = "done"
    /\ authorization = Some(<<"Bearer", " ">>)
    /\ API_KEYS = JList(<<"k1", "k2">>)
    /\ headers.Authorization = Some(<<"Bearer", " ", "k2">>)

\* C14: a request causes at most one upstream request, on the streaming and
\* on the buffered path and whatever the outcome (a success, a non-success
\* status, a transport failure or a timeout): no call is issued a second time.
C14_AtMostOneUpstreamRequest ==
    /\ attempts <= 1
    /\ pc \in {"body", "dispatch", "connect", "post", "raised"} => attempts = 0

\* the streaming call was answered with a 500 and broke while its body was
\* being read
C14_Witness ==
    /\ is_stream /\ pc = "failed"
    /\ up_status = 500 /\ Len(up_chunks) = 2 /\ nread = 1
    /\ attempts = 1

\* a request without a credential of its own, handled while the pool is empty
Unkeyed == key_cycle = None /\ NoCredential(authorization) /\ pc /= "body"

\* C15: with an empty pool get_next_key returns an empty value and does not
\* fail, and a request without a caller credential then goes upstream with
\* the Authorization header "Bearer " or with no Authorization header, on
\* every such request and on both paths.
C15_EmptyPoolBearerOrAbsent ==
    /\ key_cycle = None => get_next_key(key_cycle).key = ""
    /\ Unkeyed => headers.Authorization \in {Some(<<"Bearer", " ">>), Missing}

\* C15 as the code has it: the Authorization header is there and its value is
\* empty, on every such request and on both paths.
C15_EmptyPoolEmptyAuthorization ==
    /\ key_cycle = None => get_next_key(key_cycle).key = ""
    /\ Unkeyed => headers.Authorization = Some(<<>>)

\* a request without an Authorization header went the streaming way to its
\* end under a configuration without api_keys
C15_Witness ==
    /\ Unkeyed
    /\ authorization = Missing
    /\ is_stream /\ pc = "done" /\ attempts = 1
    /\ headers.Authorization = Some(<<>>)

\* C19: for a POST request whose body parses, the path taken agrees with the
\* top-level stream key of the outbound payload: the streaming path exactly
\* when it is true (as it is whenever the caller left it out), the buffered
\* path when the caller set it to something else, whatever else the payload
\* holds, a nested object with a stream key of its own included.
C19_PathFollowsTopLevelStream ==
    Transformed => (is_stream <=> Outbound.stream = <<TRUE>>)

----------------------------------------------------------------------------
\* The rotator and the requests (Spec)

\* the requests handled so far
Handled == { r \in Requests : rq[r].pc = "upstream" }

\* the cursor stands where m calls since the start leave it, and m calls
\* were answered
AdvancedBy(m) ==
    /\ Len(calls) = m
    /\ key_cycle.pos = (IF m < Len(Pool) THEN m ELSE Len(Pool))
    /\ Cursor(key_cycle) = m % Len(Pool)

\* C20: the rotator is consulted exactly once per request: with no reload,
\* after m requests, with or without a credential of their own, the cursor
\* has advanced exactly m positions.
C20_OneCallPerRequest ==
    (reloads = 0 /\ key_cycle /= None) => AdvancedBy(Cardinality(Handled))

\* C20 as the code has it: the rotator is consulted exactly once per request
\* that carries no credential of its own and never for a request that carries
\* one; with no reload, the cursor has advanced by the number of requests
\* without a credential handled so far.
C20_OneCallPerRequestWithoutCredential ==
    (reloads = 0 /\ key_cycle /= None) =>
        /\ AdvancedBy(Cardinality({ r \in Handled : ~ rq[r].own }))
        /\ \A r \in Handled :
               Cardinality({ i \in 1..Len(calls) : calls[i].req = r })
                   = (IF rq[r].own THEN 0 ELSE 1)

\* three requests were handled under the pool of two, the second with a
\* credential of its own: two calls, and the cursor is back at the start
C20_Witness ==
    /\ reloads = 0
    /\ Pool = <<"k1", "k2">>
    /\ Handled = {1, 2, 3}
    /\ rq[2].own /\ ~ rq[1].own /\ ~ rq[3].own
    /\ Len(calls) = 2 /\ Cursor(key_cycle) = 0 /\ key_cycle.pos = 2

====
